---------------------------- MODULE Spec2Model ----------------------------
(***************************************************************************)
(* FileEncryptor (src/crypter/crypter.py): the encrypt and decrypt         *)
(* workflows, the container layout, the key derivation, the AES-GCM calls  *)
(* and the k-anonymity breach check, as a state machine over a small file  *)
(* system.  One action runs the code from one operator prompt to the next. *)
(*                                                                         *)
(* Bytes are 0..255.  Text is a sequence of character codes: '0'..'9' are  *)
(* 0..9, 'A'..'F' are 10..15, 'a'..'f' are 20..25, ':' is 30; password     *)
(* characters are their UTF-8 bytes.  A path is a sequence of tokens, the  *)
(* extension ".yjch" being one token.                                      *)
(***************************************************************************)
EXTENDS Integers, Sequences, FiniteSets, TLC

\* ------------------------------------------------------------- bounds
\* Operations on the files in one behaviour: launches of the program and
\* changes an outside party makes between them.
MaxOps == 2
\* Password entries in one operation (the loops of the code are unbounded).
MaxEntries == 2
\* The longest path, in pieces, the path computations are applied to.
MaxPathLen == 3
\* The most entries a directory handed to the renamer holds.
MaxFiles == 3

\* ---------------------------------------------------------- constants
\* HEADER_SIGNATURE = b"YJCHGCM1"
HEADER_SIGNATURE == <<89, 74, 67, 72, 71, 67, 77, 49>>
HEADER_LEN == Len(HEADER_SIGNATURE)
IV_LEN == 12
\* AESGCM: 16-byte tag appended to the ciphertext, nonce of at least 8 bytes.
TAG_LEN == 16
MIN_NONCE_LEN == 8
\* the suffix of f"{path}.yjch" and of path.rsplit(".yjch", 1)
YJCH == ".yjch"

\* ------------------------------------------------------ small helpers
RECURSIVE SumSeq(_)
SumSeq(s) == IF s = <<>> THEN 0 ELSE Head(s) + SumSeq(Tail(s))

RECURSIVE WeightedSum(_, _)
WeightedSum(s, k) ==
    IF s = <<>> THEN 0 ELSE k * Head(s) + WeightedSum(Tail(s), k + 1)

\* file.read(n) at offset `from` (0-based): at most n bytes, fewer at EOF.
ReadAt(data, from, n) ==
    LET last == IF from + n < Len(data) THEN from + n ELSE Len(data)
    IN  IF from >= Len(data) THEN <<>> ELSE SubSeq(data, from + 1, last)

\* file.read() at offset `from`: all the remaining bytes.
ReadRest(data, from) ==
    IF from >= Len(data) THEN <<>> ELSE SubSeq(data, from + 1, Len(data))

\* ------------------------------------------------------ key derivation
\* hashlib.sha256(...).digest(): 32 bytes.  The stand-in keeps what the
\* workflow relies on: a fixed length, a pure function of the input
\* bytes alone, and different inputs of the model giving keys that differ.
Sha256(bytes) ==
    LET d == (WeightedSum(bytes, 1) + 131 * Len(bytes) + 7) % 256
    IN  [i \in 1..32 |-> (d * (2 * i + 1) + i) % 256]

\* _derive_key: sha256 of the UTF-8 bytes of the password.
DeriveKey(password) == Sha256(password)

\* ------------------------------------------------------------ AES-GCM
\* Key stream byte i (1-based) under key and nonce.
KeyStream(key, iv, i) ==
    (key[((i - 1) % 32) + 1] + SumSeq(iv) + 3 * i) % 256

GcmCipher(key, iv, data) ==
    [i \in 1..Len(data) |-> (data[i] + KeyStream(key, iv, i)) % 256]

GcmPlain(key, iv, ct) ==
    [i \in 1..Len(ct) |-> (ct[i] + 256 - KeyStream(key, iv, i)) % 256]

\* Sum of the ciphertext bytes at positions congruent to r modulo 3.
RECURSIVE FoldCt(_, _, _)
FoldCt(ct, i, r) ==
    IF i > Len(ct) THEN 0
    ELSE (IF i % 3 = r THEN ct[i] ELSE 0) + FoldCt(ct, i + 1, r)

\* The tag has GCM's shape, E_K(J0) + GHASH_H(C): bytes 1..12 mix the
\* nonce with the key, bytes 13..15 the ciphertext, byte 16 its length.
\* Changing one byte of the nonce or of the ciphertext changes the tag;
\* changing the ciphertext and the tag together can produce a valid pair.
GcmTag(key, iv, ct) ==
    [j \in 1..TAG_LEN |->
        IF j <= 12 THEN (key[j] + IF j <= Len(iv) THEN iv[j] ELSE 0) % 256
        ELSE IF j <= 15 THEN (key[j] + FoldCt(ct, 1, j % 3)) % 256
        ELSE (key[j] + Len(ct)) % 256]

\* AESGCM(key).encrypt(iv, data, None): ciphertext with the tag appended.
AesGcmEncrypt(key, iv, data) ==
    LET ct == GcmCipher(key, iv, data)
    IN  ct \o GcmTag(key, iv, ct)

\* AESGCM(key).decrypt(iv, data, None): the plaintext, or an exception:
\* ValueError for a nonce shorter than 8 bytes, InvalidTag for data
\* shorter than a tag or a tag that does not verify.
AesGcmDecrypt(key, iv, data) ==
    IF Len(iv) < MIN_NONCE_LEN THEN [ok |-> FALSE, exc |-> "ValueError", plain |-> <<>>]
    ELSE IF Len(data) < TAG_LEN THEN [ok |-> FALSE, exc |-> "InvalidTag", plain |-> <<>>]
    ELSE LET ct  == SubSeq(data, 1, Len(data) - TAG_LEN)
             tag == SubSeq(data, Len(data) - TAG_LEN + 1, Len(data))
         IN  IF tag = GcmTag(key, iv, ct)
             THEN [ok |-> TRUE, exc |-> "none", plain |-> GcmPlain(key, iv, ct)]
             ELSE [ok |-> FALSE, exc |-> "InvalidTag", plain |-> <<>>]


\* ------------------------------------------------------- breach check
\* hashlib.sha1(...).hexdigest(): 40 lowercase hex characters.  The
\* stand-in depends on the input bytes alone; inputs with the same byte
\* sum share their first 5 characters (one range of the service).
Sha1HexDigest(bytes) ==
    LET dA == SumSeq(bytes) % 16
        dB == WeightedSum(bytes, 1) % 16
        v(i) == IF i <= 5 THEN (dA * (2 * i + 1) + i) % 16
                ELSE (dB * (2 * i + 1) + dA + i) % 16
    IN  [i \in 1..40 |-> IF v(i) < 10 THEN v(i) ELSE v(i) + 10]

\* str.upper() on hex characters: 'a'..'f' become 'A'..'F'.
Upper(text) ==
    [i \in 1..Len(text) |-> IF text[i] >= 20 /\ text[i] <= 25 THEN text[i] - 10 ELSE text[i]]

\* sha1_pw = hashlib.sha1(password.encode("utf-8")).hexdigest().upper()
Sha1Pw(password) == Upper(Sha1HexDigest(password))

\* prefix, suffix = sha1_pw[:5], sha1_pw[5:]
Prefix(sha1_pw) == SubSeq(sha1_pw, 1, 5)
Suffix(sha1_pw) == SubSeq(sha1_pw, 6, Len(sha1_pw))

\* url = f"https://api.pwnedpasswords.com/range/{prefix}"
RangeUrlFull(password) ==
    [base |-> "https://api.pwnedpasswords.com/range/", arg |-> Sha1Pw(password)]

RangeUrl(password) ==
    [base |-> "https://api.pwnedpasswords.com/range/", arg |-> Prefix(Sha1Pw(password))]

\* line.split(":")[0]: the text before the first ':' (the whole line
\* when it has none).
RECURSIVE FirstField(_)
FirstField(line) ==
    IF line = <<>> \/ Head(line) = 30 THEN <<>>
    ELSE <<Head(line)>> \o FirstField(Tail(line))

\* The suffix looked for anywhere in the text of the answer.
SuffixAnywhereInBody(suffix, body) ==
    \E k \in 1..Len(body) : \E i \in 0..(Len(body[k]) - Len(suffix)) :
        SubSeq(body[k], i + 1, i + Len(suffix)) = suffix

\* suffix in (line.split(":")[0] for line in response.text.splitlines())
SuffixInBody(suffix, body) ==
    \E k \in 1..Len(body) : FirstField(body[k]) = suffix

\* The same, an unanswered request taken for a breach.
CheckPasswordPwnedFailClosed(password, resp) ==
    IF resp.kind = "error"
    THEN [pwned |-> TRUE, msg |-> "Erreur de connexion a l'API HaveIBeenPwned"]
    ELSE IF resp.status # 200
    THEN [pwned |-> TRUE, msg |-> "Erreur API HaveIBeenPwned"]
    ELSE [pwned |-> SuffixInBody(Suffix(Sha1Pw(password)), resp.body), msg |-> ""]

\* _check_password_pwned, given the service's answer: a transport error,
\* or a status and a body (its lines).
CheckPasswordPwned(password, resp) ==
    IF resp.kind = "error"
    THEN [pwned |-> FALSE, msg |-> "Erreur de connexion a l'API HaveIBeenPwned"]
    ELSE IF resp.status # 200
    THEN [pwned |-> FALSE, msg |-> "Erreur API HaveIBeenPwned"]
    ELSE [pwned |-> SuffixInBody(Suffix(Sha1Pw(password)), resp.body), msg |-> ""]

\* ---------------------------------------------------- input domains
\* Passwords the operator types: empty, "ab", "ba".
Passwords == {<<>>, <<97, 98>>, <<98, 97>>}

\* File contents present before the first launch.
Plaintexts == {<<>>, <<72>>, <<72, 105>>}

\* os.urandom(IV_LEN): the values the random source gives in the model.
Nonces ==
    {[i \in 1..IV_LEN |-> 16 + i], [i \in 1..IV_LEN |-> (7 * i) % 256]}

\* Paths: "a", "a.yjch", "c", "c.yjch", the directory "d".
PathA == <<"a">>
PathAY == <<"a", YJCH>>
PathC == <<"c">>
PathCY == <<"c", YJCH>>
PathD == <<"d">>
AllPaths == {PathA, PathAY, PathC, PathCY, PathD}
\* What the operator answers to "Chemin du fichier" ("" included).
PathInputs == {<<>>, PathA, PathAY, PathC, PathD}
\* What the operator types instead of the default output path.
OutputInputs == {PathA, PathD}

\* The lines a 200 answer is built from, for a suffix: a record of the
\* suffix, a record of another suffix, the suffix in the count field of
\* another record, the suffix as a part of a longer field.
OtherSuffix(suffix) == [i \in 1..Len(suffix) |-> (suffix[i] + 1) % 16]
BodyLines(suffix) ==
    {suffix \o <<30, 3>>,
     OtherSuffix(suffix) \o <<30, 5>>,
     OtherSuffix(suffix) \o <<30>> \o suffix,
     <<0>> \o suffix \o <<30, 1>>}
Responses(password) ==
    LET lines == BodyLines(Suffix(Sha1Pw(password)))
    IN  {[kind |-> "error", status |-> 0, body |-> <<>>],
         [kind |-> "http", status |-> 500, body |-> <<>>],
         [kind |-> "http", status |-> 200, body |-> <<>>]}
        \cup {[kind |-> "http", status |-> 200, body |-> <<l>>] : l \in lines}
        \cup {[kind |-> "http", status |-> 200,
                 body |-> <<OtherSuffix(Suffix(Sha1Pw(password))) \o <<30, 5>>, l>>] :
                 l \in lines}

\* str.lower() on hex characters.
Lower(text) ==
    [i \in 1..Len(text) |-> IF text[i] >= 10 /\ text[i] <= 15 THEN text[i] + 10 ELSE text[i]]

\* The breach check on its own: more passwords, and answers of up to two
\* lines that also hold the suffix in lower case and a line without ':'.
BreachPasswords == {<<97>>, <<98>>, <<97, 98>>, <<98, 97>>}
BreachBodyLines(suffix) ==
    BodyLines(suffix) \cup {Lower(suffix) \o <<30, 2>>, suffix}
BreachResponses(password) ==
    LET lines == BreachBodyLines(Suffix(Sha1Pw(password)))
    IN  {[kind |-> "error", status |-> 0, body |-> <<>>],
         [kind |-> "http", status |-> 500, body |-> <<>>],
         [kind |-> "http", status |-> 200, body |-> <<>>]}
        \cup {[kind |-> "http", status |-> 200, body |-> <<l>>] : l \in lines}
        \cup {[kind |-> "http", status |-> 200, body |-> <<l1, l2>>] :
                 l1 \in lines, l2 \in lines}

\* ------------------------------------------------------- file system
Absent == [kind |-> "absent", data |-> <<>>, readable |-> FALSE]
Directory == [kind |-> "dir", data |-> <<>>, readable |-> TRUE]
RegularFile(bytes, r) == [kind |-> "file", data |-> bytes, readable |-> r]


\* --------------------------------------------------------------- state
VARIABLES
    fs,           \* the file system: path -> absent, directory or regular file
    pc,           \* the prompt the program waits at ("idle": not running)
    outcome,      \* how the last operation ended ("running" during one)
    action,       \* the menu choice of the current operation
    path,         \* the operator's answer to "Chemin du fichier"
    output_path,  \* the output path of the current operation
    password,     \* the password of the current loop iteration
    key,          \* the derived key of the current decrypt attempt
    msgs,         \* the console messages of the current operation, in order
    asked,        \* the questions put to the operator in the current operation and the yes/no answers, in order
    entries,      \* password entries of the current operation
    requests,     \* the requests sent to the breach service, each with the password it was made for, its sha1_pw and the answer
    verdict,      \* how the encrypt password was accepted
    attempt,      \* the last decrypt attempt: what was read, and what came of it
    made,         \* path -> the encryption that produced the container there (password, key, content, nonce)
    fs0,          \* the file system when the current operation started
    seen,         \* failed attempts so far: (cause, what the operator could observe)
    ops,          \* launches so far
    tampers       \* outside changes so far

\* The state of the file renamer (src/renamer/renamer.py).
VARIABLES
    config,       \* RenameConfig, as FileRenamer.__init__ copies it
    platform,     \* the operating system os.rename runs on
    dir,          \* the directory config.path: name -> entry
    dir0,         \* the directory when rename() was called
    self_files,   \* self.files: the sorted list of _list_files
    idx,          \* the index of the loop of rename(), from 1
    rpc,          \* where rename() is: "idle", "loop", "done", "crashed"
    printed,      \* what rename() printed, in order
    today,        \* the day datetime.now() is in, as an index of Dates
    calls         \* the calls of os.rename made, in order

\* The variables of the file encryptor.
cvars == <<fs, pc, outcome, action, path, output_path, password, key, msgs, asked,
           entries, requests, verdict, attempt, made, fs0, seen, ops, tampers>>

\* The variables of the file renamer.
rvars == <<config, platform, dir, dir0, self_files, idx, rpc, printed, today, calls>>

vars == <<fs, pc, outcome, action, path, output_path, password, key, msgs, asked,
          entries, requests, verdict, attempt, made, fs0, seen, ops, tampers, rvars>>

\* RenameConfig's defaults (dry_run as main() passes it without --dry-run).
DefaultConfig ==
    [pattern |-> <<>>, dry_run |-> FALSE, replace |-> <<>>, exclude |-> {},
     confirm |-> FALSE, sort_mode |-> "alpha", index_format |-> "{:02}"]

\* No renamer runs: the encryptor's specifications leave this as it is.
RenamerIdle ==
    /\ config = DefaultConfig
    /\ platform = "posix"
    /\ dir = <<>>
    /\ dir0 = <<>>
    /\ self_files = <<>>
    /\ idx = 0
    /\ rpc = "idle"
    /\ printed = <<>>
    /\ today = 1
    /\ calls = <<>>

\* The record of a question put to the operator.
Asked(question) == <<question, "asked">>

\* The record of an answer to a yes/no question.
Answer(question, answer) ==
    IF answer THEN <<question, "yes">> ELSE <<question, "no">>

NoKey == <<>>
NoPath == <<>>
NoVerdict == [pwned |-> FALSE, answered |-> FALSE, override |-> FALSE, set |-> FALSE]
NotMade ==
    [is |-> FALSE, pw |-> <<>>, key |-> <<>>, plain |-> <<>>, iv |-> <<>>, bytes |-> <<>>]
NoAttempt ==
    [n |-> 0, pw |-> <<>>, read |-> <<>>, src |-> NotMade, exc |-> "none",
     verified |-> FALSE, wrote |-> FALSE]

\* os.stat of a path ("" and unknown names do not exist).
Stat(files, p) == IF p \in DOMAIN files THEN files[p] ELSE Absent

\* os.path.isfile, os.path.exists
IsFile(files, p) == Stat(files, p).kind = "file"
Exists(files, p) == Stat(files, p).kind # "absent"

\* open(p, "rb"): the exception raised, or "none".
OpenReadExc(files, p) ==
    LET st == Stat(files, p)
    IN  IF st.kind = "absent" THEN "FileNotFoundError"
        ELSE IF st.kind = "dir" THEN "IsADirectoryError"
        ELSE IF ~st.readable THEN "PermissionError"
        ELSE "none"

\* open(p, "wb"): the exception raised, or "none".
OpenWriteExc(files, p) ==
    IF p \notin DOMAIN files THEN "FileNotFoundError"
    ELSE IF files[p].kind = "dir" THEN "IsADirectoryError"
    ELSE "none"

\* with open(p, "wb") as f: f.write(bytes) -- the whole file is replaced.
WriteFile(files, p, bytes) ==
    [files EXCEPT ![p] = RegularFile(bytes, IF @.kind = "file" THEN @.readable ELSE TRUE)]

\* os.remove(p)
RemoveFile(files, p) == [files EXCEPT ![p] = Absent]

\* A detection by the name of the file instead of its first bytes.
IsAlreadyEncryptedByName(files, p) ==
    [ret |-> p # <<>> /\ p[Len(p)] = YJCH, raised |-> "none", msg |-> <<>>]

\* A detection that takes every file it can open for a container.
IsAlreadyEncryptedAnyFile(files, p) ==
    LET exc == OpenReadExc(files, p)
    IN  IF exc = "FileNotFoundError"
        THEN [ret |-> FALSE, raised |-> "none", msg |-> <<"Fichier introuvable">>]
        ELSE IF exc # "none"
        THEN [ret |-> FALSE, raised |-> exc, msg |-> <<>>]
        ELSE [ret |-> TRUE, raised |-> "none", msg |-> <<>>]

\* _is_already_encrypted: only FileNotFoundError is caught.
IsAlreadyEncrypted(files, p) ==
    LET exc == OpenReadExc(files, p)
    IN  IF exc = "FileNotFoundError"
        THEN [ret |-> FALSE, raised |-> "none", msg |-> <<"Fichier introuvable">>]
        ELSE IF exc # "none"
        THEN [ret |-> FALSE, raised |-> exc, msg |-> <<>>]
        ELSE [ret |-> ReadAt(files[p].data, 0, HEADER_LEN) = HEADER_SIGNATURE,
              raised |-> "none", msg |-> <<>>]

\* output_path = f"{path}.yjch"
EncryptOutputPath(p) == p \o <<YJCH>>

\* path.rsplit(".yjch", 1)[0]: what precedes the last ".yjch", the whole
\* path when it has none.
RECURSIVE RSplitYjch(_, _)
RSplitYjch(p, k) ==
    IF k = 0 THEN p
    ELSE IF p[k] = YJCH THEN SubSeq(p, 1, k - 1)
    ELSE RSplitYjch(p, k - 1)
DecryptOutputDefault(p) == RSplitYjch(p, Len(p))

\* A container without the nonce.
ContainerBytesNoNonce(iv, encrypted) == HEADER_SIGNATURE \o encrypted

\* The container written by _handle_encrypt: signature, nonce, ciphertext+tag.
ContainerBytes(iv, encrypted) == HEADER_SIGNATURE \o iv \o encrypted



\* -------------------------------------------------------------- Init
\* A container an earlier launch produced: content, password, nonce.
MadeEarlier(plain, pw, iv) ==
    [is |-> TRUE, pw |-> pw, key |-> DeriveKey(pw), plain |-> plain, iv |-> iv,
     bytes |-> ContainerBytes(iv, AesGcmEncrypt(DeriveKey(pw), iv, plain))]

\* The nonces of the containers made before the first launch.
NonceEarlier == [i \in 1..IV_LEN |-> 16 + i]
NonceEarlierC == [i \in 1..IV_LEN |-> (7 * i) % 256]

\* A container cut short after it was made.
CutShort(m) == RegularFile(SubSeq(m.bytes, 1, HEADER_LEN + 3), TRUE)

\* The file systems before the first launch: a plain file "a" (one of
\* them unreadable), containers made earlier with the password "ab" at
\* "a.yjch" and at "c" (one of them cut short since), the directory "d".
InitialFiles ==
    LET mAY == MadeEarlier(<<72, 105>>, <<97, 98>>, NonceEarlier)
        mC == MadeEarlier(<<>>, <<97, 98>>, NonceEarlierC)
        none == [file |-> Absent, made |-> NotMade]
    IN  {[a |-> RegularFile(p, TRUE), ay |-> none,
          c |-> [file |-> CutShort(mC), made |-> mC]] : p \in Plaintexts}
        \cup
        {[a |-> RegularFile(<<72>>, FALSE), ay |-> none, c |-> none],
         [a |-> Absent, ay |-> [file |-> RegularFile(mAY.bytes, TRUE), made |-> mAY],
          c |-> [file |-> CutShort(mC), made |-> mC]],
         [a |-> RegularFile(<<72>>, TRUE),
          ay |-> [file |-> RegularFile(mAY.bytes, TRUE), made |-> mAY],
          c |-> [file |-> RegularFile(mC.bytes, TRUE), made |-> mC]]}

Init ==
    /\ pc = "idle"
    /\ outcome = "none"
    /\ action = "none"
    /\ path = NoPath
    /\ output_path = NoPath
    /\ password = <<>>
    /\ key = NoKey
    /\ msgs = <<>>
    /\ asked = <<>>
    /\ entries = 0
    /\ requests = <<>>
    /\ verdict = NoVerdict
    /\ attempt = NoAttempt
    /\ seen = {}
    /\ ops = 0
    /\ tampers = 0
    /\ \E i \in InitialFiles :
          /\ fs = [p \in AllPaths |->
                      IF p = PathA THEN i.a
                      ELSE IF p = PathAY THEN i.ay.file
                      ELSE IF p = PathC THEN i.c.file
                      ELSE IF p = PathD THEN Directory
                      ELSE Absent]
          /\ made = [p \in AllPaths |->
                      IF p = PathAY THEN i.ay.made
                      ELSE IF p = PathC THEN i.c.made
                      ELSE NotMade]
    /\ fs0 = fs
    /\ RenamerIdle

\* ----------------------------------------------------------- launches
\* main(): a new process; run() shows the menu and calls the handler.
Launch(act, p) ==
    /\ pc = "idle"
    /\ ops + tampers < MaxOps
    /\ ops' = ops + 1
    /\ action' = act
    /\ path' = p
    /\ fs0' = fs
    /\ UNCHANGED <<output_path, password, key, entries, requests, verdict, attempt,
                   fs, made, seen, tampers>>
    /\ UNCHANGED rvars

\* The end of an operation: the handler returns, or an exception leaves it.
Ends(how) == pc' = "done" /\ outcome' = how

\* The process exits: what it held in memory is gone.
ProcessExit ==
    /\ pc = "done"
    /\ pc' = "idle"
    /\ outcome' = "none"
    /\ action' = "none"
    /\ path' = NoPath
    /\ output_path' = NoPath
    /\ password' = <<>>
    /\ key' = NoKey
    /\ msgs' = <<>>
    /\ asked' = <<>>
    /\ entries' = 0
    /\ requests' = <<>>
    /\ verdict' = NoVerdict
    /\ attempt' = NoAttempt
    /\ fs0' = fs
    /\ UNCHANGED <<fs, made, seen, ops, tampers>>
    /\ UNCHANGED rvars

\* run(), action "quit"
Quit ==
    /\ Launch("quit", NoPath)
    /\ asked' = <<Asked("action")>>
    /\ msgs' = <<"Fermeture du programme.">>
    /\ Ends("quit")

\* The shared head of _handle_encrypt and _handle_decrypt: the path
\* question, os.path.isfile, _is_already_encrypted.
PathCheck(p) ==
    IF p = <<>> \/ ~IsFile(fs, p) THEN [go |-> FALSE, how |-> "not_found",
                                        msg |-> <<"Fichier non trouve">>, enc |-> FALSE]
    ELSE LET probe == IsAlreadyEncrypted(fs, p)
         IN  IF probe.raised # "none"
             THEN [go |-> FALSE, how |-> "crash", msg |-> <<probe.raised>>, enc |-> FALSE]
             ELSE [go |-> TRUE, how |-> "running", msg |-> probe.msg, enc |-> probe.ret]

\* _handle_encrypt up to the password question.
StartEncrypt(p) ==
    /\ Launch("encrypt", p)
    /\ LET chk == PathCheck(p)
       IN  IF ~chk.go
           THEN /\ asked' = <<Asked("action"), Asked("file_path")>>
                /\ msgs' = chk.msg
                /\ Ends(chk.how)
           ELSE IF chk.enc
           THEN /\ asked' = <<Asked("action"), Asked("file_path")>>
                /\ msgs' = chk.msg \o <<"Ce fichier semble deja chiffre. Impossible de chiffrer a nouveau.">>
                /\ Ends("refused")
           ELSE /\ asked' = <<Asked("action"), Asked("file_path"), Asked("password")>>
                /\ msgs' = chk.msg
                /\ pc' = "enc_password"
                /\ outcome' = "running"

\* _handle_encrypt, lines 81-110: derive the key, draw the nonce, read
\* the input, encrypt, write signature + nonce + ciphertext.
EncryptWrite(pw, iv, m, a) ==
    LET out == EncryptOutputPath(path)
        rexc == OpenReadExc(fs, path)
        data == fs[path].data
        encrypted == AesGcmEncrypt(DeriveKey(pw), iv, data)
        bytes == ContainerBytes(iv, encrypted)
        wexc == OpenWriteExc(fs, out)
    IN  IF rexc # "none" \/ wexc # "none"
        THEN /\ msgs' = Append(m, IF rexc # "none" THEN rexc ELSE wexc)
             /\ asked' = a
             /\ Ends("crash")
             /\ UNCHANGED <<fs, made>>
        ELSE /\ fs' = WriteFile(fs, out, bytes)
             /\ made' = [made EXCEPT ![out] =
                            [is |-> TRUE, pw |-> pw, key |-> DeriveKey(pw), plain |-> data,
                             iv |-> iv, bytes |-> bytes]]
             /\ msgs' = Append(m, "Fichier chiffre cree")
             /\ asked' = a \o <<Asked("delete")>>
             /\ pc' = "enc_delete"
             /\ outcome' = "running"

\* The same without the question about an existing output.
EncryptWithPasswordNoQuestion(pw, m, a) ==
    /\ output_path' = EncryptOutputPath(path)
    /\ \E iv \in Nonces : EncryptWrite(pw, iv, m, a)

\* _handle_encrypt, lines 75-79, once _ask_password_and_verify returned.
EncryptWithPassword(pw, m, a) ==
    /\ output_path' = EncryptOutputPath(path)
    /\ IF Exists(fs, EncryptOutputPath(path))
       THEN /\ pc' = "enc_overwrite"
            /\ asked' = a \o <<Asked("overwrite")>>
            /\ msgs' = m
            /\ outcome' = "running"
            /\ UNCHANGED <<fs, made>>
       ELSE \E iv \in Nonces : EncryptWrite(pw, iv, m, a)

\* _ask_password_and_verify: one password entry.
EncPassword(pw, resp) ==
    /\ pc = "enc_password"
    /\ entries < MaxEntries
    /\ entries' = entries + 1
    /\ password' = pw
    /\ IF pw = <<>>
       THEN /\ msgs' = Append(msgs, "Mot de passe vide, reessayez.")
            /\ asked' = Append(asked, Asked("password"))
            /\ verdict' = NoVerdict
            /\ UNCHANGED <<pc, outcome, requests, output_path, fs, made>>
       ELSE LET chk == CheckPasswordPwned(pw, resp)
                m == IF chk.msg = "" THEN msgs ELSE Append(msgs, chk.msg)
            IN  /\ requests' = Append(requests, [url |-> RangeUrl(pw), for |-> pw, sha1 |-> Sha1Pw(pw),
                                          kind |-> resp.kind, status |-> resp.status])
                /\ IF chk.pwned
                   THEN /\ msgs' = Append(m, "Attention : Ce mot de passe a ete compromis !")
                        /\ asked' = asked \o <<Asked("override")>>
                        /\ pc' = "enc_override"
                        /\ verdict' = [NoVerdict EXCEPT !.pwned = TRUE]
                        /\ UNCHANGED <<outcome, output_path, fs, made>>
                   ELSE /\ verdict' = [NoVerdict EXCEPT !.set = TRUE]
                        /\ EncryptWithPassword(pw, m, asked)
    /\ UNCHANGED <<action, path, key, attempt, fs0, seen, ops, tampers>>
    /\ UNCHANGED rvars

\* _check_password_pwned called on its own, with the answer kept.
BreachCheck(pw, resp) ==
    /\ pc = "idle"
    /\ LET chk == CheckPasswordPwned(pw, resp)
       IN  /\ requests' = <<[url |-> RangeUrl(pw), for |-> pw, sha1 |-> Sha1Pw(pw),
                              kind |-> resp.kind, status |-> resp.status,
                              body |-> resp.body]>>
           /\ verdict' = [NoVerdict EXCEPT !.pwned = chk.pwned]
           /\ msgs' = IF chk.msg = "" THEN <<>> ELSE <<chk.msg>>
    /\ password' = pw
    /\ action' = "check"
    /\ Ends("checked")
    /\ UNCHANGED <<fs, path, output_path, key, asked, entries, attempt, made, fs0, seen,
                   ops, tampers>>
    /\ UNCHANGED rvars

\* self._confirm(...) is False: the loop continues; otherwise the
\* password is returned.
OverrideAcceptsAlways(answer) == TRUE

OverrideAccepts(answer) == answer # FALSE

\* "Voulez-vous utiliser ce mot de passe quand meme ?"
EncOverride(answer) ==
    /\ pc = "enc_override"
    /\ IF OverrideAccepts(answer)
       THEN /\ verdict' = [pwned |-> TRUE, answered |-> TRUE, override |-> answer, set |-> TRUE]
            /\ EncryptWithPassword(password, msgs, asked \o <<Answer("override", answer)>>)
       ELSE /\ verdict' = [pwned |-> TRUE, answered |-> TRUE, override |-> answer, set |-> FALSE]
            /\ pc' = "enc_password"
            /\ asked' = asked \o <<Answer("override", answer), Asked("password")>>
            /\ UNCHANGED <<output_path, msgs, outcome, fs, made>>
    /\ UNCHANGED <<action, path, password, key, entries, requests, attempt, fs0, seen,
                   ops, tampers>>
    /\ UNCHANGED rvars

\* The same with a nonce taken from the key instead of the random source.
EncOverwriteNonceFromKey(answer) ==
    /\ pc = "enc_overwrite"
    /\ IF answer
       THEN EncryptWrite(password, SubSeq(DeriveKey(password), 1, IV_LEN), msgs,
                         asked \o <<Answer("overwrite", answer)>>)
       ELSE /\ msgs' = Append(msgs, "Operation annulee par l'utilisateur.")
            /\ asked' = asked \o <<Answer("overwrite", answer)>>
            /\ Ends("cancelled")
            /\ UNCHANGED <<fs, made>>
    /\ UNCHANGED <<action, path, output_path, password, key, entries, requests, verdict,
                   attempt, fs0, seen, ops, tampers>>
    /\ UNCHANGED rvars

\* "Le fichier ... existe. Ecraser ?"
EncOverwrite(answer) ==
    /\ pc = "enc_overwrite"
    /\ IF answer
       THEN \E iv \in Nonces :
               EncryptWrite(password, iv, msgs, asked \o <<Answer("overwrite", answer)>>)
       ELSE /\ msgs' = Append(msgs, "Operation annulee par l'utilisateur.")
            /\ asked' = asked \o <<Answer("overwrite", answer)>>
            /\ Ends("cancelled")
            /\ UNCHANGED <<fs, made>>
    /\ UNCHANGED <<action, path, output_path, password, key, entries, requests, verdict,
                   attempt, fs0, seen, ops, tampers>>
    /\ UNCHANGED rvars

\* "Supprimer le fichier original ... ?"
EncDelete(answer) ==
    /\ pc = "enc_delete"
    /\ IF answer
       THEN /\ fs' = RemoveFile(fs, path)
            /\ made' = [made EXCEPT ![path] = NotMade]
            /\ msgs' = Append(msgs, "Fichier original supprime.")
       ELSE UNCHANGED <<fs, made, msgs>>
    /\ asked' = asked \o <<Answer("delete", answer)>>
    /\ Ends("encrypted")
    /\ UNCHANGED <<action, path, output_path, password, key, entries, requests,
                   verdict, attempt, fs0, seen, ops, tampers>>
    /\ UNCHANGED rvars


\* _handle_decrypt up to the output path question.
StartDecrypt(p) ==
    /\ Launch("decrypt", p)
    /\ LET chk == PathCheck(p)
       IN  IF ~chk.go
           THEN /\ asked' = <<Asked("action"), Asked("file_path")>>
                /\ msgs' = chk.msg
                /\ Ends(chk.how)
           ELSE IF ~chk.enc
           THEN /\ asked' = <<Asked("action"), Asked("file_path")>>
                /\ msgs' = chk.msg \o <<"Ce fichier ne semble pas etre chiffre par ce programme.">>
                /\ Ends("not_container")
           ELSE /\ asked' = <<Asked("action"), Asked("file_path"), Asked("output")>>
                /\ msgs' = chk.msg
                /\ pc' = "dec_output"
                /\ outcome' = "running"

\* "Chemin fichier de sortie": the default, or what the operator types.
DecOutput(typed) ==
    /\ pc = "dec_output"
    /\ output_path' = typed
    /\ pc' = "dec_await"
    /\ asked' = asked \o <<Asked("password")>>
    /\ UNCHANGED <<fs, outcome, action, path, password, key, msgs, entries, requests,
                   verdict, attempt, made, fs0, seen, ops, tampers>>
    /\ UNCHANGED rvars

\* The same with a key that also depends on the file (a salt per file).
DecPasswordSaltedKey(pw) ==
    /\ pc = "dec_await"
    /\ entries < MaxEntries
    /\ entries' = entries + 1
    /\ password' = pw
    /\ IF pw = <<>>
       THEN /\ msgs' = Append(msgs, "Mot de passe vide, reessayez.")
            /\ asked' = Append(asked, Asked("password"))
            /\ UNCHANGED <<pc, key>>
       ELSE /\ key' = DeriveKey(pw \o <<Len(path)>>)
            /\ pc' = "dec_decrypting"
            /\ UNCHANGED <<msgs, asked>>
    /\ UNCHANGED <<fs, outcome, action, path, output_path, requests, verdict,
                   attempt, made, fs0, seen, ops, tampers>>
    /\ UNCHANGED rvars

\* The loop of _handle_decrypt: one password entry.
DecPassword(pw) ==
    /\ pc = "dec_await"
    /\ entries < MaxEntries
    /\ entries' = entries + 1
    /\ password' = pw
    /\ IF pw = <<>>
       THEN /\ msgs' = Append(msgs, "Mot de passe vide, reessayez.")
            /\ asked' = Append(asked, Asked("password"))
            /\ UNCHANGED <<pc, key>>
       ELSE /\ key' = DeriveKey(pw)
            /\ pc' = "dec_decrypting"
            /\ UNCHANGED <<msgs, asked>>
    /\ UNCHANGED <<fs, outcome, action, path, output_path, requests, verdict,
                   attempt, made, fs0, seen, ops, tampers>>
    /\ UNCHANGED rvars

\* The one message of the handler "except Exception".
DecryptFailureMessageByKind(exc) ==
    IF exc = "InvalidTag" THEN "Mot de passe incorrect." ELSE "Fichier corrompu."

DecryptFailureMessage(exc) == "Mot de passe incorrect ou fichier corrompu."

\* Why an attempt on a container made with src failed, as far as the
\* record of its making tells: the key is not the one it was made with,
\* or its bytes are no longer the ones written.
FailureCause(src, read, k) ==
    IF ~src.is THEN "unknown"
    ELSE IF read = src.bytes /\ k # DeriveKey(src.pw) THEN "wrong_password"
    ELSE IF read # src.bytes /\ k = DeriveKey(src.pw) THEN "corrupted"
    ELSE "other"

\* What the try block of _handle_decrypt does with the file at `path`:
\* seek past the signature, read the nonce and the rest, decrypt, and
\* the first exception raised on the way ("none": the write is reached
\* and succeeds).
TryDecryptNoSeek(files, p, out, k) ==
    LET rexc == OpenReadExc(files, p)
        data == Stat(files, p).data
        iv == ReadAt(data, 0, IV_LEN)
        encrypted_data == ReadRest(data, IV_LEN)
        res == AesGcmDecrypt(k, iv, encrypted_data)
        wexc == OpenWriteExc(files, out)
    IN  [read |-> data,
         verified |-> rexc = "none" /\ res.ok,
         plain |-> res.plain,
         exc |-> IF rexc # "none" THEN rexc ELSE IF ~res.ok THEN res.exc ELSE wexc]

\* The same, the tag never verified.
TryDecryptUnverified(files, p, out, k) ==
    LET rexc == OpenReadExc(files, p)
        data == Stat(files, p).data
        iv == ReadAt(data, HEADER_LEN, IV_LEN)
        encrypted_data == ReadRest(data, HEADER_LEN + IV_LEN)
        ct == IF Len(encrypted_data) > TAG_LEN
              THEN SubSeq(encrypted_data, 1, Len(encrypted_data) - TAG_LEN) ELSE <<>>
        wexc == OpenWriteExc(files, out)
    IN  [read |-> data,
         verified |-> FALSE,
         plain |-> GcmPlain(k, iv, ct),
         exc |-> IF rexc # "none" THEN rexc ELSE wexc]

TryDecrypt(files, p, out, k) ==
    LET rexc == OpenReadExc(files, p)
        data == Stat(files, p).data
        iv == ReadAt(data, HEADER_LEN, IV_LEN)
        encrypted_data == ReadRest(data, HEADER_LEN + IV_LEN)
        res == AesGcmDecrypt(k, iv, encrypted_data)
        wexc == OpenWriteExc(files, out)
    IN  [read |-> data,
         verified |-> rexc = "none" /\ res.ok,
         plain |-> res.plain,
         exc |-> IF rexc # "none" THEN rexc ELSE IF ~res.ok THEN res.exc ELSE wexc]

\* The files when the try block is left by an exception: the output is
\* opened only after aesgcm.decrypt returned, so nothing was touched.
FilesTruncatedOnFailure(files, out) ==
    IF OpenWriteExc(files, out) = "none" THEN WriteFile(files, out, <<>>) ELSE files

FilesAfterFailedAttempt(files, out) == files

\* The try block and its handler: one decrypt attempt.
DecAttempt ==
    /\ pc = "dec_decrypting"
    /\ LET t == TryDecrypt(fs, path, output_path, key)
           src == made[path]
       IN  /\ attempt' = [n |-> attempt.n + 1, pw |-> password, read |-> t.read, src |-> src,
                          exc |-> t.exc, verified |-> t.verified, wrote |-> t.exc = "none"]
           /\ IF t.exc = "none"
              THEN /\ fs' = WriteFile(fs, output_path, t.plain)
                   /\ made' = [made EXCEPT ![output_path] = NotMade]
                   /\ msgs' = Append(msgs, "Fichier dechiffre cree")
                   /\ asked' = asked \o <<Asked("delete")>>
                   /\ pc' = "dec_delete"
                   /\ UNCHANGED seen
              ELSE /\ msgs' = Append(msgs, DecryptFailureMessage(t.exc))
                   /\ asked' = asked \o <<Asked("retry")>>
                   /\ pc' = "dec_retry"
                   /\ fs' = FilesAfterFailedAttempt(fs, output_path)
                   /\ UNCHANGED made
                   /\ seen' = seen \cup
                        {[cause |-> c, msg |-> msgs'[Len(msgs')], next |-> pc',
                          changed |-> fs' # fs] :
                            c \in {FailureCause(src, t.read, key)} \ {"unknown", "other"}}
    /\ UNCHANGED <<outcome, action, path, output_path, password, key, entries, requests,
                   verdict, fs0, ops, tampers>>
    /\ UNCHANGED rvars

\* "Reessayer avec un autre mot de passe ?"
DecRetry(answer) ==
    /\ pc = "dec_retry"
    /\ IF answer
       THEN /\ pc' = "dec_await"
            /\ asked' = asked \o <<Answer("retry", answer), Asked("password")>>
            /\ UNCHANGED <<msgs, outcome>>
       ELSE /\ msgs' = Append(msgs, "Dechiffrement annule.")
            /\ asked' = asked \o <<Answer("retry", answer)>>
            /\ Ends("abandoned")
    /\ UNCHANGED <<fs, action, path, output_path, password, key, entries, requests,
                   verdict, attempt, made, fs0, seen, ops, tampers>>
    /\ UNCHANGED rvars

\* "Supprimer le fichier chiffre ... ?"
DecDelete(answer) ==
    /\ pc = "dec_delete"
    /\ IF answer
       THEN /\ fs' = RemoveFile(fs, path)
            /\ made' = [made EXCEPT ![path] = NotMade]
            /\ msgs' = Append(msgs, "Fichier chiffre supprime.")
       ELSE UNCHANGED <<fs, made, msgs>>
    /\ asked' = asked \o <<Answer("delete", answer)>>
    /\ Ends("decrypted")
    /\ UNCHANGED <<action, path, output_path, password, key, entries, requests,
                   verdict, attempt, fs0, seen, ops, tampers>>
    /\ UNCHANGED rvars

\* ------------------------------------------------ the path computations
\* The pieces paths are made of: two names and the suffix.
PathPieces == {"a", "x", YJCH}
PathsOfLen(n) == [1..n -> PathPieces]
PathValues == UNION {PathsOfLen(n) : n \in 0..MaxPathLen}

\* output_path = f"{path}.yjch" on its own, for any path.
EncryptPath(p) ==
    /\ pc = "idle"
    /\ action' = "encrypt_path"
    /\ path' = p
    /\ output_path' = EncryptOutputPath(p)
    /\ Ends("computed")
    /\ UNCHANGED <<fs, password, key, msgs, asked, entries, requests, verdict, attempt,
                   made, fs0, seen, ops, tampers>>
    /\ UNCHANGED rvars

\* output_default = path.rsplit(".yjch", 1)[0] on its own, for any path.
DecryptPath(p) ==
    /\ pc = "idle"
    /\ action' = "decrypt_path"
    /\ path' = p
    /\ output_path' = DecryptOutputDefault(p)
    /\ Ends("computed")
    /\ UNCHANGED <<fs, password, key, msgs, asked, entries, requests, verdict, attempt,
                   made, fs0, seen, ops, tampers>>
    /\ UNCHANGED rvars

\* The decrypt default of the encrypt output just computed.
RoundTripPath ==
    /\ pc = "done"
    /\ action = "encrypt_path"
    /\ action' = "round_trip"
    /\ output_path' = DecryptOutputDefault(output_path)
    /\ UNCHANGED <<fs, pc, outcome, path, password, key, msgs, asked, entries, requests,
                   verdict, attempt, made, fs0, seen, ops, tampers>>
    /\ UNCHANGED rvars

\* ---------------------------------------------------- the retry loop
\* The loop of _handle_decrypt once more, without the records of the
\* dialog, of the console and of the number of entries, which grow with
\* every iteration: what is left is the state the loop itself keeps.
LoopPassword(pw) ==
    /\ pc = "dec_await"
    /\ password' = pw
    /\ IF pw = <<>>
       THEN UNCHANGED <<pc, key>>
       ELSE /\ key' = DeriveKey(pw)
            /\ pc' = "dec_decrypting"
    /\ UNCHANGED <<fs, outcome, action, path, output_path, msgs, asked, entries, requests,
                   verdict, attempt, made, fs0, seen, ops, tampers>>
    /\ UNCHANGED rvars

LoopAttempt ==
    /\ pc = "dec_decrypting"
    /\ LET t == TryDecrypt(fs, path, output_path, key)
       IN  /\ attempt' = [n |-> 1, pw |-> password, read |-> t.read, src |-> made[path],
                          exc |-> t.exc, verified |-> t.verified, wrote |-> t.exc = "none"]
           /\ IF t.exc = "none"
              THEN /\ fs' = WriteFile(fs, output_path, t.plain)
                   /\ made' = [made EXCEPT ![output_path] = NotMade]
                   /\ pc' = "dec_delete"
              ELSE /\ fs' = FilesAfterFailedAttempt(fs, output_path)
                   /\ pc' = "dec_retry"
                   /\ UNCHANGED made
    /\ UNCHANGED <<outcome, action, path, output_path, password, key, msgs, asked, entries,
                   requests, verdict, fs0, seen, ops, tampers>>
    /\ UNCHANGED rvars

LoopAnswer(answer) ==
    /\ pc = "dec_retry"
    /\ IF answer
       THEN /\ pc' = "dec_await"
            /\ UNCHANGED outcome
       ELSE Ends("abandoned")
    /\ UNCHANGED <<fs, action, path, output_path, password, key, msgs, asked, entries,
                   requests, verdict, attempt, made, fs0, seen, ops, tampers>>
    /\ UNCHANGED rvars

\* ------------------------------------------------------- environment
\* The changes an outside party makes to one byte: +1 and the top bit.
TamperDeltas == {1, 128}

\* Between launches, one byte past the signature of a file that begins
\* with the signature is changed.
Tamper(p, off, d) ==
    /\ pc = "idle"
    /\ ops + tampers < MaxOps
    /\ IsFile(fs, p)
    /\ ReadAt(fs[p].data, 0, HEADER_LEN) = HEADER_SIGNATURE
    /\ off >= HEADER_LEN /\ off < Len(fs[p].data)
    /\ fs' = [fs EXCEPT ![p].data[off + 1] = (@ + d) % 256]
    /\ fs0' = fs'
    /\ tampers' = tampers + 1
    /\ UNCHANGED <<pc, outcome, action, path, output_path, password, key, msgs, asked,
                   entries, requests, verdict, attempt, made, seen, ops>>
    /\ UNCHANGED rvars

\* Between launches, a container is replaced by a copy of another one.
Replace(p, q) ==
    /\ pc = "idle"
    /\ ops + tampers < MaxOps
    /\ p # q
    /\ IsFile(fs, p) /\ IsFile(fs, q)
    /\ ReadAt(fs[p].data, 0, HEADER_LEN) = HEADER_SIGNATURE
    /\ ReadAt(fs[q].data, 0, HEADER_LEN) = HEADER_SIGNATURE
    /\ fs' = [fs EXCEPT ![p].data = fs[q].data]
    /\ fs0' = fs'
    /\ tampers' = tampers + 1
    /\ UNCHANGED <<pc, outcome, action, path, output_path, password, key, msgs, asked,
                   entries, requests, verdict, attempt, made, seen, ops>>
    /\ UNCHANGED rvars

\* -------------------------------------------------------- the renamer
\* File names, patterns and replacements are sequences of characters; a
\* field of a pattern ("{name}", "{index}", "{date}") is one element.
DigitChars == <<"0", "1", "2", "3", "4", "5", "6", "7", "8", "9">>

\* The code point of a character: what list.sort() compares names by.
Ord(ch) ==
    IF \E k \in 1..10 : DigitChars[k] = ch
    THEN 47 + (CHOOSE k \in 1..10 : DigitChars[k] = ch)
    ELSE CASE ch = "." -> 46
           [] ch = ":" -> 58
           [] ch = "_" -> 95
           [] ch = "a" -> 97
           [] ch = "b" -> 98
           [] ch = "f" -> 102
           [] ch = "t" -> 116

\* s < t for two strings.
StrLess(s, t) ==
    \E i \in 1..Len(t) :
       /\ \A j \in 1..(i - 1) : j <= Len(s) /\ s[j] = t[j]
       /\ (i > Len(s) \/ Ord(s[i]) < Ord(t[i]))

\* The names the directories start from, and the days of a run.
NameA == <<"a">>
NameA01 == <<"a", "_", "0", "1">>
NameB == <<"b">>
NameAT == <<"a", ".", "t">>
Name01 == <<"0", "1">>
NameF == <<"f">>
Dates == << <<"2", "0", "2", "6", "1", "1", "0", "2">>,
            <<"2", "0", "2", "6", "1", "1", "0", "3">> >>

\* An entry of the directory: a regular file or a directory, with the
\* name it had when the run started and its modification time.
FileEntry(name, mtime) == [kind |-> "file", id |-> name, mtime |-> mtime]
DirEntry(name) == [kind |-> "dir", id |-> name, mtime |-> 0]

\* What a directory can hold at the start: five files and one directory.
Candidates ==
    {<<NameA, FileEntry(NameA, 3)>>, <<NameA01, FileEntry(NameA01, 1)>>,
     <<NameB, FileEntry(NameB, 2)>>, <<NameAT, FileEntry(NameAT, 2)>>,
     <<Name01, FileEntry(Name01, 3)>>,
     <<NameF, DirEntry(NameF)>>}

\* The directories of up to MaxFiles entries.
InitialDirs ==
    {[n \in {c[1] : c \in S} |-> (CHOOSE c \in S : c[1] = n)[2]] :
        S \in {T \in SUBSET Candidates : Cardinality(T) \in 1..MaxFiles}}

\* The command lines: --pattern, --replace, --exclude, --confirm, --sort,
\* --index-format, --dry-run.
Patterns == {<<>>, <<"{index}">>, <<"f">>, <<"{date}">>}
Replaces == {<<>>, <<"a", ":", "b">>, <<"_", "0", "1", ":">>}
Excludes == {{}, {NameA01}}
IndexFormats == {"{:02}", "{}"}
Configs ==
    [pattern : Patterns, dry_run : BOOLEAN, replace : Replaces, exclude : Excludes,
     confirm : BOOLEAN, sort_mode : {"alpha", "date"}, index_format : IndexFormats]

\* The answers typed at the prompt of _confirm, up to the first valid one.
ConfirmInputs == {<<"y">>, <<"n">>, <<"x", "Y">>}

\* The orders of the elements of a set.
Orderings(S) ==
    {o \in [1..Cardinality(S) -> S] :
        \A i \in 1..Cardinality(S) : \A j \in 1..Cardinality(S) : i # j => o[i] # o[j]}

\* _list_files: the regular files of the directory that are not
\* excluded, sorted by name or by modification time. The sort is stable
\* and os.listdir gives the names in any order, so files of one
\* modification time come in any order.
ListFiles(d, cfg) ==
    LET S == {n \in DOMAIN d : d[n].kind = "file" /\ n \notin cfg.exclude}
    IN  {o \in Orderings(S) :
            \A i \in 1..Cardinality(S) : \A j \in 1..Cardinality(S) :
               i < j => IF cfg.sort_mode = "date"
                        THEN d[o[i]].mtime <= d[o[j]].mtime
                        ELSE StrLess(o[i], o[j])}

\* _parse_replace: 'ancien:nouveau' cut at the first ':'.
ParseReplace(replace_str) ==
    IF replace_str # <<>> /\ \E i \in 1..Len(replace_str) : replace_str[i] = ":"
    THEN LET k == CHOOSE i \in 1..Len(replace_str) :
                     /\ replace_str[i] = ":"
                     /\ \A j \in 1..(i - 1) : replace_str[j] # ":"
         IN  [some |-> TRUE, old |-> SubSeq(replace_str, 1, k - 1),
              new |-> SubSeq(replace_str, k + 1, Len(replace_str))]
    ELSE [some |-> FALSE, old |-> <<>>, new |-> <<>>]

\* os.path.splitext: the extension starts at the last dot, unless only
\* dots come before it.
SplitExt(filename) ==
    LET dots == {i \in 1..Len(filename) : filename[i] = "."}
        last == IF dots = {} THEN 0 ELSE CHOOSE i \in dots : \A j \in dots : j <= i
    IN  IF last > 0 /\ \E j \in 1..(last - 1) : filename[j] # "."
        THEN [name |-> SubSeq(filename, 1, last - 1),
              ext |-> SubSeq(filename, last, Len(filename))]
        ELSE [name |-> filename, ext |-> <<>>]

\* The decimal digits of a natural number.
RECURSIVE Digits(_)
Digits(n) == IF n < 10 THEN <<DigitChars[n + 1]>> ELSE Digits(n \div 10) \o <<DigitChars[(n % 10) + 1]>>

\* The width an index format pads to with zeros.
IndexWidth(index_format) ==
    IF index_format = "{:02}" THEN 2 ELSE IF index_format = "{:03}" THEN 3 ELSE 0

\* self.index_format.format(index)
FormatIndex(index_format, index) ==
    LET ds == Digits(index)
        w == IndexWidth(index_format)
    IN  IF Len(ds) >= w THEN ds ELSE [i \in 1..(w - Len(ds)) |-> "0"] \o ds

\* str.format with the fields name, date and index.
RECURSIVE StrFormat(_, _, _, _)
StrFormat(pat, name, date, index) ==
    IF pat = <<>> THEN <<>>
    ELSE LET h == Head(pat)
             piece == IF h = "{name}" THEN name
                      ELSE IF h = "{date}" THEN date
                      ELSE IF h = "{index}" THEN index
                      ELSE <<h>>
         IN  piece \o StrFormat(Tail(pat), name, date, index)

\* The pattern used when none is given.
DefaultPattern == <<"{name}", "_", "{index}">>

\* _format_name
FormatName(cfg, filename, index, date) ==
    LET se == SplitExt(filename)
        new_name == IF cfg.pattern # <<>> THEN cfg.pattern ELSE DefaultPattern
    IN  StrFormat(new_name, se.name, date, FormatIndex(cfg.index_format, index)) \o se.ext

\* str.replace: every occurrence of old, left to right, without
\* overlap; an empty old matches before every character and at the end.
RECURSIVE StrReplace(_, _, _)
StrReplace(s, old, new) ==
    IF old = <<>>
    THEN IF s = <<>> THEN new ELSE new \o <<Head(s)>> \o StrReplace(Tail(s), old, new)
    ELSE IF Len(s) < Len(old) THEN s
    ELSE IF SubSeq(s, 1, Len(old)) = old
    THEN new \o StrReplace(SubSeq(s, Len(old) + 1, Len(s)), old, new)
    ELSE <<Head(s)>> \o StrReplace(Tail(s), old, new)

\* _apply_replace
ApplyReplace(cfg, filename) ==
    LET replace == ParseReplace(cfg.replace)
    IN  IF ~replace.some THEN filename ELSE StrReplace(filename, replace.old, replace.new)

\* _confirm: asks until the answer, in lower case, is y or n.
LowerChoice(ch) == IF ch = "Y" THEN "y" ELSE IF ch = "N" THEN "n" ELSE ch
Confirm(inputs) ==
    LET valid == {i \in 1..Len(inputs) : LowerChoice(inputs[i]) \in {"y", "n"}}
        k == CHOOSE i \in valid : \A j \in valid : i <= j
    IN  [returns |-> valid # {}, choice |-> valid # {} /\ LowerChoice(inputs[k]) = "y"]

\* os.rename(src, dst) in one directory. On POSIX a regular file at dst
\* is replaced silently and a directory there raises; on Windows an
\* existing dst always raises. An empty new name makes dst the directory
\* path itself.
OsRename(d, plat, src, dst) ==
    IF src \notin DOMAIN d THEN [exc |-> "FileNotFoundError", dir |-> d]
    ELSE IF dst = <<>> THEN [exc |-> "OSError", dir |-> d]
    ELSE IF dst \in DOMAIN d /\ plat = "windows" THEN [exc |-> "FileExistsError", dir |-> d]
    ELSE IF dst \in DOMAIN d /\ d[dst].kind = "dir" THEN [exc |-> "IsADirectoryError", dir |-> d]
    ELSE [exc |-> "none",
          dir |-> [n \in (DOMAIN d \ {src}) \cup {dst} |-> IF n = dst THEN d[src] ELSE d[n]]]

\* A run of the renamer on one directory; the encryptor is not running.
InitRename ==
    /\ pc = "idle"
    /\ outcome = "none"
    /\ action = "none"
    /\ path = NoPath
    /\ output_path = NoPath
    /\ password = <<>>
    /\ key = NoKey
    /\ msgs = <<>>
    /\ asked = <<>>
    /\ entries = 0
    /\ requests = <<>>
    /\ verdict = NoVerdict
    /\ attempt = NoAttempt
    /\ seen = {}
    /\ ops = 0
    /\ tampers = 0
    /\ fs = [p \in AllPaths |-> Absent]
    /\ made = [p \in AllPaths |-> NotMade]
    /\ fs0 = fs
    /\ config \in Configs
    /\ platform \in {"posix", "windows"}
    /\ dir \in InitialDirs
    /\ dir0 = dir
    /\ self_files = <<>>
    /\ idx = 0
    /\ rpc = "idle"
    /\ printed = <<>>
    /\ today = 1
    /\ calls = <<>>

\* rename(), line 90: _list_files, then the loop is entered.
Rename ==
    /\ rpc = "idle"
    /\ \E o \in ListFiles(dir, config) :
          /\ self_files' = o
          /\ rpc' = IF o = <<>> THEN "done" ELSE "loop"
    /\ idx' = 1
    /\ dir0' = dir
    /\ UNCHANGED <<config, platform, dir, printed, today, calls>>
    /\ UNCHANGED cvars

\* The pattern in use has the field.
UsesField(cfg, field) ==
    LET new_name == IF cfg.pattern # <<>> THEN cfg.pattern ELSE DefaultPattern
    IN  \E i \in 1..Len(new_name) : new_name[i] = field

\* rename(), lines 91-107: one turn of the loop, for the file at idx.
\* date is the day datetime.now() gives, inputs what is typed at the
\* prompt of _confirm. The day is followed only where the pattern shows
\* it, and the prompt only where it is put.
RenameFile(date, inputs) ==
    /\ rpc = "loop"
    /\ date >= today
    /\ UsesField(config, "{date}") \/ date = today
    /\ today' = date
    /\ LET filename == self_files[idx]
           new_name == ApplyReplace(config, FormatName(config, filename, idx, Dates[date]))
           next == IF idx = Len(self_files) THEN "done" ELSE "loop"
           asks == ~config.dry_run /\ config.confirm /\ filename # new_name
           r == OsRename(dir, platform, filename, new_name)
       IN  /\ IF asks THEN Confirm(inputs).returns ELSE inputs = <<"y">>
           /\ IF filename = new_name
              THEN /\ idx' = idx + 1
                   /\ rpc' = next
                   /\ UNCHANGED <<dir, printed, calls>>
              ELSE IF config.dry_run
              THEN /\ printed' = Append(printed, [msg |-> "[DRY-RUN]", old |-> filename,
                                                  new |-> new_name])
                   /\ idx' = idx + 1
                   /\ rpc' = next
                   /\ UNCHANGED <<dir, calls>>
              ELSE IF config.confirm /\ ~Confirm(inputs).choice
              THEN /\ printed' = Append(printed, [msg |-> "Renommage annule pour", old |-> filename,
                                                  new |-> <<>>])
                   /\ idx' = idx + 1
                   /\ rpc' = next
                   /\ UNCHANGED <<dir, calls>>
              ELSE /\ calls' = Append(calls, [src |-> filename, dst |-> new_name,
                                              held |-> new_name \in DOMAIN dir, exc |-> r.exc])
                   /\ dir' = r.dir
                   /\ IF r.exc = "none"
                      THEN /\ printed' = Append(printed, [msg |-> "Renomme", old |-> filename,
                                                          new |-> new_name])
                           /\ idx' = idx + 1
                           /\ rpc' = next
                      ELSE /\ printed' = Append(printed, [msg |-> r.exc, old |-> filename,
                                                          new |-> new_name])
                           /\ rpc' = "crashed"
                           /\ UNCHANGED idx
    /\ UNCHANGED <<config, platform, dir0, self_files>>
    /\ UNCHANGED cvars

\* --------------------------------------------------------------- Next
Next ==
    \/ Quit
    \/ \E p \in PathInputs : StartEncrypt(p)
    \/ \E pw \in Passwords : \E resp \in Responses(pw) : EncPassword(pw, resp)
    \/ \E answer \in BOOLEAN : EncOverride(answer)
    \/ \E answer \in BOOLEAN : EncOverwrite(answer)
    \/ \E answer \in BOOLEAN : EncDelete(answer)
    \/ \E p \in PathInputs : StartDecrypt(p)
    \/ \E typed \in OutputInputs \cup {DecryptOutputDefault(path)} : DecOutput(typed)
    \/ \E pw \in Passwords : DecPassword(pw)
    \/ DecAttempt
    \/ \E answer \in BOOLEAN : DecRetry(answer)
    \/ \E answer \in BOOLEAN : DecDelete(answer)
    \/ ProcessExit

Spec == Init /\ [][Next]_vars

\* Decrypt launches, with an outside party that changes containers
\* between them.
NextTamper ==
    \/ \E p \in AllPaths : \E off \in 0..63 : \E d \in TamperDeltas : Tamper(p, off, d)
    \/ \E p \in AllPaths : \E q \in AllPaths : Replace(p, q)
    \/ \E p \in PathInputs : StartDecrypt(p)
    \/ \E typed \in OutputInputs \cup {DecryptOutputDefault(path)} : DecOutput(typed)
    \/ \E pw \in Passwords : DecPassword(pw)
    \/ DecAttempt
    \/ \E answer \in BOOLEAN : DecRetry(answer)
    \/ \E answer \in BOOLEAN : DecDelete(answer)
    \/ ProcessExit

SpecTamper == Init /\ [][NextTamper]_vars

\* The breach check alone, for every password and answer.
NextBreach ==
    \/ \E pw \in BreachPasswords : \E resp \in BreachResponses(pw) : BreachCheck(pw, resp)
    \/ ProcessExit

SpecBreach == Init /\ [][NextBreach]_vars

\* Decrypt launches with the loop as above.  The program takes its next
\* step and the operator answers every question.
NextRetryLoop ==
    \/ \E p \in PathInputs : StartDecrypt(p)
    \/ \E typed \in OutputInputs \cup {DecryptOutputDefault(path)} : DecOutput(typed)
    \/ \E pw \in Passwords : LoopPassword(pw)
    \/ LoopAttempt
    \/ \E answer \in BOOLEAN : LoopAnswer(answer)
    \/ \E answer \in BOOLEAN : DecDelete(answer)
    \/ ProcessExit

SpecRetryLoop == Init /\ [][NextRetryLoop]_vars /\ WF_vars(NextRetryLoop)

\* The two path computations, for every path.
NextPaths ==
    \/ \E p \in PathValues : EncryptPath(p)
    \/ \E p \in PathValues : DecryptPath(p)
    \/ RoundTripPath
    \/ ProcessExit

SpecPaths == Init /\ [][NextPaths]_vars

\* The encrypt workflow on its own.
NextEncrypt ==
    \/ \E p \in PathInputs : StartEncrypt(p)
    \/ \E pw \in Passwords : \E resp \in Responses(pw) : EncPassword(pw, resp)
    \/ \E answer \in BOOLEAN : EncOverride(answer)
    \/ \E answer \in BOOLEAN : EncOverwrite(answer)
    \/ \E answer \in BOOLEAN : EncDelete(answer)
    \/ ProcessExit

SpecEncrypt == Init /\ [][NextEncrypt]_vars

\* The renamer: one run on each directory under each command line.
NextRename ==
    \/ Rename
    \/ \E date \in 1..Len(Dates) : \E inputs \in ConfirmInputs : RenameFile(date, inputs)

SpecRename == InitRename /\ [][NextRename]_vars

\* The shape of the state.
TypeOK ==
    /\ DOMAIN fs = AllPaths
    /\ \A p \in AllPaths : fs[p].kind \in {"absent", "dir", "file"}
    /\ pc \in {"idle", "done", "enc_password", "enc_override", "enc_overwrite", "enc_delete",
               "dec_output", "dec_await", "dec_decrypting", "dec_retry", "dec_delete"}
    /\ entries \in 0..MaxEntries
    /\ ops \in 0..MaxOps
    /\ tampers \in 0..MaxOps
    /\ output_path \in AllPaths \cup {NoPath}


\* ------------------------------------------- the decrypt state machine
\* The state of the retry machine of _handle_decrypt.
DState ==
    IF pc = "dec_await" THEN "AwaitPassword"
    ELSE IF pc = "dec_decrypting" THEN "Decrypting"
    ELSE IF pc = "dec_retry" THEN "RetryPrompt"
    ELSE IF pc = "dec_delete" \/ (pc = "done" /\ outcome = "decrypted") THEN "Success"
    ELSE IF pc = "done" /\ outcome = "abandoned" THEN "Abandoned"
    ELSE "None"

\* The dialog so far holds the entry x.
Said(x) == \E i \in 1..Len(asked) : asked[i] = x
LastSaid == IF asked = <<>> THEN <<"", "">> ELSE asked[Len(asked)]

\* A decrypt attempt has just been made.
JustAttempted == pc \in {"dec_retry", "dec_delete"} /\ attempt.n > 0

\* The number of positions where two byte strings of one length differ.
RECURSIVE DiffCount(_, _)
DiffCount(x, y) ==
    IF x = <<>> \/ y = <<>> THEN 0
    ELSE (IF Head(x) = Head(y) THEN 0 ELSE 1) + DiffCount(Tail(x), Tail(y))

\* ------------------------------------------------------------- claims

\* C1: the decrypt operation follows exactly the retry state machine:
\* it starts in AwaitPassword; an empty password stays there, without a
\* file read or a retry question; a non-empty password moves to
\* Decrypting; from Decrypting a verified tag moves to Success and a tag
\* failure or a parse/read error to RetryPrompt; from RetryPrompt yes
\* moves to AwaitPassword and no to Abandoned; nothing else happens.
C1_Step ==
    /\ (DState = "None" /\ DState' # "None") => DState' = "AwaitPassword"
    /\ DState = "AwaitPassword" =>
          /\ password' = <<>> => (DState' = "AwaitPassword" /\ attempt' = attempt
                                   /\ asked' = Append(asked, Asked("password")))
          /\ password' # <<>> => DState' = "Decrypting"
    /\ DState = "Decrypting" =>
          /\ attempt'.verified => DState' = "Success"
          /\ ~attempt'.verified => DState' = "RetryPrompt"
    /\ DState = "RetryPrompt" =>
          \/ /\ asked' = asked \o <<Answer("retry", TRUE), Asked("password")>>
             /\ DState' = "AwaitPassword"
          \/ /\ asked' = Append(asked, Answer("retry", FALSE))
             /\ DState' = "Abandoned"
    /\ DState = "Success" => DState' \in {"Success", "None"}
    /\ DState = "Abandoned" => DState' = "None"

C1_RetryStateMachine == [][C1_Step]_vars

\* C1, apart from a verified attempt whose output cannot be written: the
\* rest of the machine is as claimed.
C1_StepButWrite ==
    \/ C1_Step
    \/ /\ DState = "Decrypting" /\ DState' = "RetryPrompt"
       /\ attempt'.verified /\ OpenWriteExc(fs, output_path) # "none"

C1_MachineButWriteError == [][C1_StepButWrite]_vars

\* C2: a decrypt operation writes the output path only after the tag
\* verified in that attempt; a run that ends in Abandoned leaves the
\* output path (and every other file) as it was before the operation.
C2_OutputOnlyAfterVerification ==
    action = "decrypt" =>
       /\ fs # fs0 => (attempt.verified /\ attempt.wrote /\ DState = "Success")
       /\ DState = "Abandoned" =>
             /\ Stat(fs, output_path) = Stat(fs0, output_path)
             /\ fs = fs0

\* C2's case: Abandoned after a failed attempt, a retry and a second
\* failed attempt.
C2_Witness ==
    /\ DState = "Abandoned"
    /\ attempt.n = 2
    /\ Said(Answer("retry", TRUE))

\* C3: a container produced by encrypting content P under a non-empty
\* password W, decrypted unchanged with W to an output path that can be
\* written, ends in Success with exactly P at the output path.
C3_RoundTrip ==
    (/\ JustAttempted
     /\ attempt.src.is
     /\ attempt.read = attempt.src.bytes
     /\ attempt.pw = attempt.src.pw
     /\ OpenWriteExc(fs0, output_path) = "none")
    => /\ DState = "Success"
       /\ IsFile(fs, output_path)
       /\ fs[output_path].data = attempt.src.plain

\* C3's case: a file encrypted in this behaviour (content <<72>>) and
\* decrypted by the next launch.
C3_Witness ==
    /\ DState = "Success"
    /\ JustAttempted
    /\ attempt.src.is
    /\ attempt.src.plain = <<72>>
    /\ attempt.read = attempt.src.bytes
    /\ fs[output_path].data = <<72>>


\* The container read differs from the one written, past the signature.
ChangedPastSignature(read, bytes) ==
    /\ read # bytes
    /\ ReadAt(read, 0, HEADER_LEN) = HEADER_SIGNATURE

\* The container read is the one written with one byte changed, at an
\* offset of the nonce or of the ciphertext and tag.
OneByteChanged(read, bytes) ==
    /\ Len(read) = Len(bytes)
    /\ DiffCount(read, bytes) = 1
    /\ ReadAt(read, 0, HEADER_LEN) = HEADER_SIGNATURE

\* The last attempt did not verify, wrote nothing and asks for a retry.
Rejected ==
    /\ ~attempt.verified
    /\ ~attempt.wrote
    /\ DState = "RetryPrompt"
    /\ fs = fs0

\* C4, as claimed: a decrypt attempt on a container produced with W,
\* with a password whose key differs, or with W after any change to the
\* bytes from offset 8 on, never reaches Success, writes nothing and
\* goes to RetryPrompt.
C4_AnyChangeRejected ==
    (/\ JustAttempted
     /\ attempt.src.is
     /\ \/ /\ attempt.read = attempt.src.bytes
           /\ DeriveKey(attempt.pw) # DeriveKey(attempt.src.pw)
        \/ /\ attempt.pw = attempt.src.pw
           /\ ChangedPastSignature(attempt.read, attempt.src.bytes))
    => Rejected

\* C4, amended: the same for a password whose key differs and for W
\* after a change of one byte of the nonce or of the ciphertext and tag:
\* the attempt fails authentication (InvalidTag), never reaches Success,
\* writes nothing and goes to RetryPrompt.
C4_OneByteChangeRejected ==
    (/\ JustAttempted
     /\ attempt.src.is
     /\ \/ /\ attempt.read = attempt.src.bytes
           /\ DeriveKey(attempt.pw) # DeriveKey(attempt.src.pw)
        \/ /\ attempt.pw = attempt.src.pw
           /\ OneByteChanged(attempt.read, attempt.src.bytes))
    => (Rejected /\ attempt.exc = "InvalidTag")

\* C4's case: an attempt with the original password on a container with
\* one byte changed since it was written.
C4_Witness ==
    /\ JustAttempted
    /\ attempt.src.is
    /\ attempt.pw = attempt.src.pw
    /\ OneByteChanged(attempt.read, attempt.src.bytes)
    /\ tampers = 1
    /\ DState = "RetryPrompt"

\* C5: a failed attempt because of a wrong password and one because of
\* changed container bytes give the operator the same message, the same
\* next state RetryPrompt and the same untouched files.
C5_SameOutcomeForBothCauses ==
    \A r1 \in seen : \A r2 \in seen :
        /\ r1.msg = r2.msg
        /\ r1.next = r2.next
        /\ r1.changed = r2.changed
        /\ r1.next = "dec_retry"
        /\ ~r1.changed

\* C5's case: both causes have occurred.
C5_Witness ==
    /\ \E r \in seen : r.cause = "wrong_password"
    /\ \E r \in seen : r.cause = "corrupted"

\* needle occurs in hay.
Contains(hay, needle) ==
    \E i \in 0..(Len(hay) - Len(needle)) : SubSeq(hay, i + 1, i + Len(needle)) = needle

\* C6: every request sent to the service carries the first 5 hex
\* characters of the password's hash and nothing else: not the 35
\* character suffix, not the whole hash, not the password; two passwords
\* with the same 5 characters send the same request.
C6_OnlyPrefixLeaves ==
    /\ \A i \in 1..Len(requests) :
          LET r == requests[i]
              h == r.sha1
          IN  /\ DOMAIN r.url = {"base", "arg"}
              /\ r.url.base = "https://api.pwnedpasswords.com/range/"
              /\ Len(r.url.arg) = 5
              /\ \A k \in 1..5 : r.url.arg[k] = h[k]
              /\ ~Contains(r.url.arg, SubSeq(h, 6, 40))
              /\ ~Contains(r.url.arg, h)
              /\ ~Contains(r.url.arg, r.for)
    /\ \A i \in 1..Len(requests) : \A j \in (i + 1)..Len(requests) :
          Prefix(requests[i].sha1) = Prefix(requests[j].sha1)
          => requests[i].url = requests[j].url

\* C6's case: two requests in one operation, for two passwords whose
\* hashes share the first 5 characters and differ after them.
C6_Witness ==
    /\ Len(requests) = 2
    /\ requests[1].for # requests[2].for
    /\ requests[1].sha1 # requests[2].sha1
    /\ requests[1].url = requests[2].url

\* C7: the detection returns true iff the first 8 bytes of the file are
\* the signature, and returns false without raising when the file is
\* missing, unreadable or shorter than 8 bytes.  Stated of the file the
\* handler has just probed.
C7_DetectionNeverRaises ==
    (/\ action \in {"encrypt", "decrypt"}
     /\ pc # "idle"
     /\ Stat(fs0, path).kind # "dir")
    => LET r == IsAlreadyEncrypted(fs0, path)
           st == Stat(fs0, path)
       IN  /\ r.raised = "none"
           /\ r.ret <=> (st.kind = "file" /\ st.readable /\ Len(st.data) >= HEADER_LEN
                         /\ SubSeq(st.data, 1, HEADER_LEN) = HEADER_SIGNATURE)
           /\ ~(outcome = "crash" /\ asked = <<Asked("action"), Asked("file_path")>>)

\* C8: an encrypt whose target begins with the signature (and can be
\* read) ends at once with the refusal message: no password or
\* overwrite question, no request to the service, no file changed.
C8_DoubleEncryptionRefused ==
    (/\ action = "encrypt"
     /\ pc # "idle"
     /\ IsFile(fs0, path)
     /\ fs0[path].readable
     /\ ReadAt(fs0[path].data, 0, HEADER_LEN) = HEADER_SIGNATURE)
    => /\ pc = "done"
       /\ outcome = "refused"
       /\ msgs = <<"Ce fichier semble deja chiffre. Impossible de chiffrer a nouveau.">>
       /\ asked = <<Asked("action"), Asked("file_path")>>
       /\ requests = <<>>
       /\ fs = fs0

\* C8's case: the encrypt of a container written by the launch before.
C8_Witness ==
    /\ action = "encrypt"
    /\ outcome = "refused"
    /\ ops = 2
    /\ made[path].is
    /\ made[path].plain = <<72>>

\* C9: when the encrypt output path exists already, it is written only
\* after the operator answered yes to the overwrite question; when the
\* operator declines, the operation ends with every file unchanged and
\* without the deletion question.
C9_OverwriteGated ==
    (/\ action = "encrypt"
     /\ pc # "idle"
     /\ Exists(fs0, EncryptOutputPath(path)))
    => /\ Stat(fs, EncryptOutputPath(path)) # Stat(fs0, EncryptOutputPath(path))
             => Said(Answer("overwrite", TRUE))
       /\ Said(Answer("overwrite", FALSE))
             => /\ pc = "done"
                /\ outcome = "cancelled"
                /\ fs = fs0
                /\ ~Said(Asked("delete"))

\* C9's case: the output existed and the operator declined.
C9_Witness ==
    /\ action = "encrypt"
    /\ Exists(fs0, EncryptOutputPath(path))
    /\ Said(Answer("overwrite", FALSE))
    /\ pc = "done"

\* The encrypt workflow is past _ask_password_and_verify.
PasswordReturned ==
    \/ pc \in {"enc_overwrite", "enc_delete"}
    \/ pc = "done" /\ outcome \in {"encrypted", "cancelled"}

\* C10: the password _ask_password_and_verify returns is not empty and
\* was either reported not breached or accepted by the operator's
\* override; an empty entry re-prompts without a request to the
\* service; a breached password whose override is declined re-prompts.
C10_PasswordAcquisition ==
    action = "encrypt" =>
       /\ PasswordReturned <=> verdict.set
       /\ verdict.set =>
             /\ password # <<>>
             /\ ~verdict.pwned \/ (verdict.answered /\ verdict.override)
       /\ (entries > 0 /\ password = <<>>) =>
             /\ pc = "enc_password"
             /\ LastSaid = Asked("password")
             /\ msgs[Len(msgs)] = "Mot de passe vide, reessayez."
             /\ Len(requests) < entries
       /\ \A i \in 1..Len(requests) : requests[i].for # <<>>
       /\ (verdict.pwned /\ verdict.answered /\ ~verdict.override) =>
             /\ pc = "enc_password"
             /\ LastSaid = Asked("password")

\* C10's case: a breached password declined, then a breached password
\* accepted by the override.
C10_Witness ==
    /\ action = "encrypt"
    /\ pc = "enc_delete"
    /\ entries = 2
    /\ Said(Answer("override", FALSE))
    /\ verdict.pwned /\ verdict.override /\ verdict.set


\* The request was not answered with a 200.
Unanswered(r) == r.kind = "error" \/ r.status # 200

\* The warning printed for an unanswered request.
WarningFor(r) ==
    IF r.kind = "error" THEN "Erreur de connexion a l'API HaveIBeenPwned"
    ELSE "Erreur API HaveIBeenPwned"

\* C11: when the range request fails or is answered with a status other
\* than 200, no further request is made for that password, a warning is
\* printed, the password is taken as not breached and the encrypt goes
\* on to the encryption with it, without the override question.
C11_FailOpen ==
    action = "encrypt" =>
       \A i \in 1..Len(requests) :
          Unanswered(requests[i]) =>
             /\ i = Len(requests)
             /\ Len(requests) <= entries
             /\ \E k \in 1..Len(msgs) : msgs[k] = WarningFor(requests[i])
             /\ password = requests[i].for
             /\ verdict = [NoVerdict EXCEPT !.set = TRUE]
             /\ PasswordReturned \/ (pc = "done" /\ outcome = "crash")
             /\ \A k \in 1..Len(asked) :
                   asked[k] = Asked("override") =>
                      \E j \in (k + 1)..Len(asked) : asked[j] = Answer("override", FALSE)

\* C11's case: a transport error for the second password entered, after
\* a first one was reported breached and given up; the file is written.
C11_Witness ==
    /\ action = "encrypt"
    /\ Len(requests) = 2
    /\ requests[2].kind = "error"
    /\ requests[1].status = 200
    /\ pc = "enc_delete"

\* The text of a line before its first ':' (30), the whole line when it
\* has none.
BeforeColon(line) ==
    LET colons == {k \in 1..Len(line) : line[k] = 30}
    IN  IF colons = {} THEN line
        ELSE SubSeq(line, 1, (CHOOSE k \in colons : \A j \in colons : k <= j) - 1)

\* C12: on a 200 answer the password is reported breached iff its 35
\* character suffix equals the text before the first ':' of a line of
\* the body; a suffix that is only a part of a field, or only in a count
\* field, is not a breach.
C12_MembershipTest ==
    \A i \in 1..Len(requests) :
       LET r == requests[i]
       IN  (action = "check" /\ r.kind = "http" /\ r.status = 200) =>
              /\ Len(Suffix(r.sha1)) = 35
              /\ verdict.pwned <=>
                    \E k \in 1..Len(r.body) : BeforeColon(r.body[k]) = Suffix(r.sha1)

\* C12's case: the suffix is in the body, but only as a part of a field
\* or in a count field, and the password is not reported breached.
C12_Witness ==
    /\ action = "check"
    /\ Len(requests) = 1
    /\ requests[1].status = 200
    /\ Len(requests[1].body) = 2
    /\ \A k \in 1..2 : Contains(requests[1].body[k], Suffix(requests[1].sha1))
    /\ ~verdict.pwned


\* The file at p can be read and begins with the signature.
BeginsWithSignature(files, p) ==
    /\ IsFile(files, p)
    /\ files[p].readable
    /\ ReadAt(files[p].data, 0, HEADER_LEN) = HEADER_SIGNATURE

\* C13: a decrypt whose target is missing, is not a regular file, or
\* (being readable) does not begin with the signature ends at once with
\* a message, before the output path and password questions, and no
\* file is written or deleted.
C13_DecryptPreconditions ==
    (/\ action = "decrypt"
     /\ pc # "idle"
     /\ \/ ~IsFile(fs0, path)
        \/ Stat(fs0, path).readable /\ ~BeginsWithSignature(fs0, path))
    => /\ pc = "done"
       /\ IF IsFile(fs0, path)
          THEN /\ outcome = "not_container"
               /\ msgs = <<"Ce fichier ne semble pas etre chiffre par ce programme.">>
          ELSE /\ outcome = "not_found"
               /\ msgs = <<"Fichier non trouve">>
       /\ asked = <<Asked("action"), Asked("file_path")>>
       /\ fs = fs0

\* C13's case: the decrypt of a plain file, after the launch that
\* encrypted it.
C13_Witness ==
    /\ action = "decrypt"
    /\ outcome = "not_container"
    /\ path = PathA
    /\ IsFile(fs, PathAY)
    /\ ops = 2

\* C14: a decrypt target that begins with the signature and is shorter
\* than signature plus nonce (20 bytes) ends the decrypt at once with a
\* message: no password is asked, no retry question, no output written.
C14_TruncatedAbortsAtOnce ==
    (/\ action = "decrypt"
     /\ pc # "idle"
     /\ BeginsWithSignature(fs0, path)
     /\ Len(fs0[path].data) < HEADER_LEN + IV_LEN)
    => /\ pc = "done"
       /\ msgs # <<>>
       /\ ~Said(Asked("output"))
       /\ ~Said(Asked("password"))
       /\ ~Said(Asked("retry"))
       /\ fs = fs0

\* C14, what the handler does instead: the questions are asked, the
\* attempt fails in AESGCM on the short nonce and the retry question
\* follows; nothing is written.
C14_TruncatedEntersRetryLoop ==
    (/\ action = "decrypt"
     /\ pc # "idle"
     /\ BeginsWithSignature(fs0, path)
     /\ Len(fs0[path].data) < HEADER_LEN + IV_LEN)
    => /\ Said(Asked("output"))
       /\ fs = fs0
       /\ DState # "Success"
       /\ JustAttempted =>
             /\ attempt.exc = "ValueError"
             /\ DState = "RetryPrompt"
             /\ LastSaid = Asked("retry")


\* C15: the retry loop is bounded: a decrypt that has passed its
\* preconditions and waits for a password eventually reaches Success or
\* Abandoned, whatever the operator enters and answers.
C15_RetryLoopEnds ==
    (DState = "AwaitPassword") ~> (DState \in {"Success", "Abandoned"})

\* C15, what holds instead: the loop is left only by a verified and
\* written attempt or by the answer no to the retry question.
C15_LoopLeftOnlyBySuccessOrNo ==
    [][(DState \in {"AwaitPassword", "Decrypting", "RetryPrompt"}
          /\ DState' \notin {"AwaitPassword", "Decrypting", "RetryPrompt"})
       => \/ DState = "Decrypting" /\ DState' = "Success" /\ attempt'.wrote
          \/ DState = "RetryPrompt" /\ DState' = "Abandoned"]_vars


\* The output of the current operation has been written.
OutputWritten ==
    \/ action = "encrypt" /\ (pc = "enc_delete" \/ (pc = "done" /\ outcome = "encrypted"))
    \/ action = "decrypt" /\ attempt.wrote

\* C16: the source (the plain file of an encrypt, the container of a
\* decrypt) is removed only after the output was written in the same
\* operation and the operator then answered yes to the deletion
\* question; on every other path it is there, unchanged, when the
\* operation ends.
C16_SourceDeletionGated ==
    (/\ action \in {"encrypt", "decrypt"}
     /\ pc # "idle"
     /\ Exists(fs0, path))
    => /\ ~Exists(fs, path) =>
             /\ OutputWritten
             /\ LastSaid = Answer("delete", TRUE)
       /\ (pc = "done" /\ ~Said(Answer("delete", TRUE))) =>
             Stat(fs, path) = Stat(fs0, path)

\* C16, what holds instead: the same, unless the output path of a
\* decrypt is the container itself, which the write then replaces.
C16_GatedUnlessOutputIsSource ==
    (/\ action \in {"encrypt", "decrypt"}
     /\ pc # "idle"
     /\ Exists(fs0, path))
    => /\ ~Exists(fs, path) =>
             /\ OutputWritten
             /\ LastSaid = Answer("delete", TRUE)
       /\ (pc = "done" /\ ~Said(Answer("delete", TRUE))) =>
             \/ Stat(fs, path) = Stat(fs0, path)
             \/ /\ action = "decrypt"
                /\ output_path = path
                /\ attempt.wrote
                /\ fs[path].data = attempt.src.plain


\* C17: the file written by a successful encrypt of P is the 8 bytes of
\* the signature, the 12 bytes of the nonce used, then the ciphertext
\* with its tag: 8 + 12 + len(P) + 16 bytes; a decrypt reads the nonce
\* at offsets 8..19 and the ciphertext with its tag from offset 20 on.
C17_ContainerLayout ==
    /\ (action = "encrypt" /\ pc = "enc_delete") =>
          LET bytes == fs[output_path].data
              m == made[output_path]
              P == fs0[path].data
          IN  /\ m.is /\ m.plain = P /\ m.bytes = bytes
              /\ Len(bytes) = 8 + 12 + Len(P) + 16
              /\ SubSeq(bytes, 1, 8) = <<89, 74, 67, 72, 71, 67, 77, 49>>
              /\ SubSeq(bytes, 9, 20) = m.iv
              /\ SubSeq(bytes, 21, Len(bytes)) = AesGcmEncrypt(DeriveKey(password), m.iv, P)
    /\ (action = "decrypt" /\ pc = "dec_delete") =>
          LET bytes == attempt.read
              res == AesGcmDecrypt(key, SubSeq(bytes, 9, 20), SubSeq(bytes, 21, Len(bytes)))
          IN  /\ Len(bytes) >= 8 + 12 + 16
              /\ res.ok
              /\ fs[output_path].data = res.plain
              /\ Len(res.plain) = Len(bytes) - (8 + 12 + 16)

\* C17's case: the container of the two bytes "Hi" has just been
\* written: 38 bytes.
C17_Witness ==
    /\ action = "encrypt"
    /\ pc = "enc_delete"
    /\ fs0[path].data = <<72, 105>>
    /\ Len(fs[output_path].data) = 38


\* C18, as claimed: across the encrypt operations under one password no
\* nonce value is used twice.
C18_NoNonceTwice ==
    \A p \in AllPaths : \A q \in AllPaths :
       (p # q /\ made[p].is /\ made[q].is /\ made[p].pw = made[q].pw)
       => made[p].iv # made[q].iv

\* C18, amended: the nonce of every encrypt is the 12 bytes the random
\* source returned just before the encryption; whatever the password,
\* the plaintext, the path and the nonces of earlier encryptions, every
\* value of the random source can be the nonce.
C18_NonceIsTheDraw ==
    /\ (action = "encrypt" /\ pc = "enc_delete") =>
          /\ made[output_path].iv \in Nonces
          /\ Len(made[output_path].iv) = IV_LEN
          /\ SubSeq(fs[output_path].data, HEADER_LEN + 1, HEADER_LEN + IV_LEN)
                = made[output_path].iv
    /\ pc = "enc_overwrite" =>
          \A iv \in Nonces : ENABLED (EncOverwrite(TRUE) /\ made'[output_path].iv = iv)

\* C18's case: a container made earlier with one nonce has been
\* overwritten by an encryption under the same password that drew
\* another nonce.
C18_Witness ==
    /\ action = "encrypt"
    /\ pc = "enc_delete"
    /\ Said(Answer("overwrite", TRUE))
    /\ password = <<97, 98>>
    /\ SubSeq(fs0[output_path].data, HEADER_LEN + 1, HEADER_LEN + IV_LEN) = NonceEarlier
    /\ made[output_path].iv = NonceEarlierC


\* C19: the key is a function of the password alone: the same password
\* gives the same 32 bytes for every file, nonce, content and launch,
\* when a container is made and when one is decrypted.
C19_KeyOfPasswordAlone ==
    /\ \A p \in AllPaths : made[p].is => Len(made[p].key) = 32
    /\ \A p \in AllPaths : \A q \in AllPaths :
          (made[p].is /\ made[q].is /\ made[p].pw = made[q].pw)
          => made[p].key = made[q].key
    /\ (action = "decrypt" /\ pc \in {"dec_decrypting", "dec_retry", "dec_delete"}) =>
          /\ Len(key) = 32
          /\ \A p \in AllPaths :
                (made[p].is /\ made[p].pw = password) => key = made[p].key

\* C19's case: the key derived for the decrypt of a.yjch is the key of
\* the container at c, made at another time from another content with
\* another nonce and the same password.
C19_Witness ==
    /\ action = "decrypt"
    /\ pc = "dec_decrypting"
    /\ path = PathAY
    /\ made[PathAY].is /\ made[PathC].is
    /\ made[PathC].pw = password
    /\ made[PathC].iv # made[PathAY].iv
    /\ made[PathC].plain # made[PathAY].plain
    /\ key = made[PathC].key


\* The path ends with the suffix.
EndsWithSuffix(p) == p # <<>> /\ p[Len(p)] = ".yjch"

\* C20: the encrypt output path is the input path with the suffix
\* appended; the decrypt default is the input path with the trailing
\* suffix stripped and nothing else changed; the decrypt default of the
\* encrypt output of p is p.
C20_OutputPaths ==
    /\ action = "encrypt_path" => output_path = path \o <<".yjch">>
    /\ action = "decrypt_path" =>
          output_path = IF EndsWithSuffix(path) THEN SubSeq(path, 1, Len(path) - 1) ELSE path
    /\ action = "round_trip" => output_path = path

\* C20, what holds instead: the decrypt default is what precedes the
\* last ".yjch" of the path, wherever it stands; the rest is as claimed.
C20_DefaultCutsAtLastSuffix ==
    /\ action = "encrypt_path" => output_path = path \o <<".yjch">>
    /\ action = "decrypt_path" =>
          LET at == {k \in 1..Len(path) : path[k] = ".yjch"}
          IN  IF at = {} THEN output_path = path
              ELSE output_path = SubSeq(path, 1, (CHOOSE k \in at : \A j \in at : j <= k) - 1)
    /\ action = "round_trip" => output_path = path

\* C20, in the decrypt operation: the output path is the default or the
\* path the operator typed in its place.
C20_TypedPathReplacesDefault ==
    (action = "decrypt" /\ pc \in {"dec_await", "dec_decrypting", "dec_retry", "dec_delete"})
    => output_path \in OutputInputs \cup {DecryptOutputDefault(path)}


\* C21, as claimed: when a decrypt has succeeded and the deletion of the
\* container was confirmed, the plaintext is still at the output path,
\* and the output path is never the path of the container deleted.
C21_DecryptKeepsItsResult ==
    (/\ action = "decrypt"
     /\ pc = "done"
     /\ outcome = "decrypted"
     /\ attempt.wrote
     /\ Said(Answer("delete", TRUE)))
    => /\ output_path # path
       /\ IsFile(fs, output_path)
       /\ fs[output_path].data = attempt.src.plain

\* C21, what holds instead: the plaintext is still at the output path
\* whenever the output path is another path than the container's; when
\* it is the container's, nothing is left at it.
C21_ResultKeptUnlessOutputIsContainer ==
    (/\ action = "decrypt"
     /\ pc = "done"
     /\ outcome = "decrypted"
     /\ attempt.wrote
     /\ Said(Answer("delete", TRUE)))
    => IF output_path # path
       THEN IsFile(fs, output_path) /\ fs[output_path].data = attempt.src.plain
       ELSE ~Exists(fs, output_path)

\* C21's failing case: the container at c was decrypted onto itself and
\* then deleted.
C21_ResultDestroyed ==
    /\ action = "decrypt"
    /\ pc = "done"
    /\ outcome = "decrypted"
    /\ attempt.wrote
    /\ Said(Answer("delete", TRUE))
    /\ path = PathC
    /\ output_path = PathC
    /\ ~Exists(fs, PathC)


\* The files of the directory at the start of the run that are no
\* longer in it under any name.
LostFiles == {n \in DOMAIN dir0 : \A m \in DOMAIN dir : dir[m].id # dir0[n].id}

\* C22, as claimed: in a run without dry_run, every file listed is still
\* there under its old name or under the name it was renamed to, no
\* call of os.rename names a target that another entry holds, and the
\* directory holds as many entries as at the start.
C22_RenameLosesNoFile ==
    (rpc # "idle" /\ ~config.dry_run)
    => /\ \A i \in 1..Len(self_files) :
             \E n \in DOMAIN dir :
                /\ dir[n].id = dir0[self_files[i]].id
                /\ \/ n = self_files[i]
                   \/ \E k \in 1..Len(calls) :
                         calls[k].src = self_files[i] /\ calls[k].dst = n
       /\ \A k \in 1..Len(calls) : ~calls[k].held
       /\ Cardinality(DOMAIN dir) = Cardinality(DOMAIN dir0)

\* C22, what holds instead: a file is lost exactly when a call of
\* os.rename that went through named a target held by another file,
\* which POSIX replaces; on Windows, and in a dry run, none is lost.
C22_LostOnlyByReplacement ==
    /\ Cardinality(LostFiles)
          = Cardinality({k \in 1..Len(calls) : calls[k].held /\ calls[k].exc = "none"})
    /\ Cardinality(DOMAIN dir) = Cardinality(DOMAIN dir0) - Cardinality(LostFiles)
    /\ (platform = "windows" \/ config.dry_run) => LostFiles = {}
    /\ config.dry_run => dir = dir0 /\ calls = <<>>

\* C22's failing case: with the default command line, the directory of
\* the files a and a_01 holds one file after the run.
C22_FileLost ==
    /\ rpc = "done"
    /\ config = DefaultConfig
    /\ DOMAIN dir0 = {NameA, NameA01}
    /\ Cardinality(DOMAIN dir) = 1
    /\ LostFiles = {NameA01}


=============================================================================
